---- MODULE Spec2Model ----
(***************************************************************************)
(* Voice chat web client (Next.js page + LiveKit room) and its token route. *)
(*                                                                         *)
(*   src/app/api/token/route.ts  POST /api/token                           *)
(*   src/unnamed/part_000        Home (join screen) and VoiceChatRoom      *)
(*                                                                         *)
(* JavaScript values are tagged records; JavaScript strings are sequences  *)
(* of one-character strings, so that emptiness, concatenation and          *)
(* String.prototype.includes are computed, not assumed.                    *)
(***************************************************************************)
EXTENDS Integers, Sequences, FiniteSets, TLC

VARIABLES
    env,            \* process.env of the server: LIVEKIT_API_KEY / LIVEKIT_API_SECRET
    caught,         \* whether the route's catch block ran for the request
    request,        \* the request body the route is handling (NoRequest: none)
    response,       \* the route's response to it (NoResponse: none yet)
    token,          \* Home: useState("")
    isJoining,      \* Home: useState(false)
    fetchState,     \* Home.joinRoom: "idle", or "pending" while it awaits fetch
    alerts,         \* number of alert() dialogs joinRoom has shown
    thrown,         \* number of exceptions that escaped joinRoom
    screen,         \* what Home last rendered: "join" or "room"
    requested,      \* history: the room names joinRoom asked tokens for, in order
    now,            \* Date.now()
    roomState,      \* the Room's connection state
    handler,        \* Room: the handler registered for 'lk.transcription' (0: none)
    listeners,      \* Room: the registered event listeners
    effect,         \* VoiceChatRoom: the live run of the effect (0: none)
    runs,           \* number of times the effect has run
    isConnected,    \* VoiceChatRoom: useState(false)
    chatMessages,   \* VoiceChatRoom: useState([])
    isAgentTyping,  \* VoiceChatRoom: useState(false)
    pending,        \* transcription streams whose reader.readAll() is awaited
    streams,        \* number of transcription streams the session has opened
    opened,         \* number of transcription streams opened since Init
    escaped,        \* number of exceptions that escaped the effect or its cleanup
    delivered       \* observer: the last event delivered (SpecSession only)

routeVars == <<env, caught, request, response>>
homeVars == <<token, isJoining, fetchState, alerts, thrown, screen, requested>>
roomVars == <<roomState, handler, listeners, effect, runs, isConnected,
              chatMessages, isAgentTyping, pending, streams, opened, escaped>>
vars == <<routeVars, homeVars, roomVars, now, delivered>>

(***************************************************************************)
(* Bounds of the model.                                                    *)
(***************************************************************************)
MaxJoins == 2       \* Start Call clicks
MaxClock == 1       \* Date.now() ranges over 0..MaxClock
MaxRuns == 2        \* runs of the VoiceChatRoom effect
MaxStreams == 2     \* transcription streams opened after Init
MaxPending == 2     \* transcription streams in flight at once

(***************************************************************************)
(* JavaScript values.                                                      *)
(***************************************************************************)
Undefined == [kind |-> "undefined"]
Null == [kind |-> "null"]
Num(n) == [kind |-> "num", v |-> n]
Str(s) == [kind |-> "str", v |-> s]

\* JavaScript truthiness, as used by `!room`, `!apiKey`, `!token`.
Truthy(x) ==
    CASE x.kind = "undefined" -> FALSE
      [] x.kind = "null" -> FALSE
      [] x.kind = "num" -> x.v # 0
      [] x.kind = "str" -> x.v # <<>>
      [] x.kind = "jwt" -> TRUE

IsString(x) == x.kind = "str"

\* Number.prototype.toString for a non-negative integer.
RECURSIVE Digits(_)
Digits(n) ==
    LET d == <<"0", "1", "2", "3", "4", "5", "6", "7", "8", "9">>[(n % 10) + 1]
    IN IF n < 10 THEN <<d>> ELSE Digits(n \div 10) \o <<d>>

\* String.prototype.includes.
Includes(s, sub) ==
    \E i \in 1..(Len(s) - Len(sub) + 1) : SubSeq(s, i, i + Len(sub) - 1) = sub

(***************************************************************************)
(* POST /api/token  (src/app/api/token/route.ts)                           *)
(***************************************************************************)
S_room == <<"w", "e", "a", "t", "h", "e", "r", "-", "c", "h", "a", "t", "-", "r", "o", "o", "m">>
S_other == <<"r", "2">>
S_user == <<"u", "s", "e", "r", "-">>
S_agent == <<"a", "g", "e", "n", "t">>

\* Values a client may put in a field of the JSON body (Undefined: field absent).
FieldValues == {Undefined, Null, Num(0), Num(7), Str(<<>>), Str(S_room), Str(S_other)}

\* What request.json() yields: a rejection, null, a primitive or array, an object.
Bodies ==
    {[kind |-> "unparseable"], [kind |-> "null"], [kind |-> "primitive"]}
    \cup {[kind |-> "object", room |-> r, username |-> u] :
            r \in FieldValues, u \in FieldValues}

CredValues == {Undefined, Str(<<>>), Str(<<"k">>)}
Envs == [LIVEKIT_API_KEY : CredValues, LIVEKIT_API_SECRET : CredValues]

NoRequest == [kind |-> "none"]
NoResponse == [status |-> 0]

\* NextResponse.json(body, {status}); the default status is 200.
Json(status, body) == [status |-> status, body |-> body]

\* `const { room, username } = ...` on a parsed body that is not null.
Field(body, name) ==
    IF body.kind = "object"
    THEN (IF name = "room" THEN body.room ELSE body.username)
    ELSE Undefined

Ttl == "10m"

AccessTokenFixedRoom(apiKey, apiSecret, username, room) ==
    [kind |-> "jwt", iss |-> apiKey, identity |-> username, ttl |-> Ttl,
     video |-> [room |-> Str(S_room), roomJoin |-> TRUE, canPublish |-> TRUE,
                canSubscribe |-> TRUE]]

\* new AccessToken(apiKey, apiSecret, {identity, ttl}) + addGrant({...}) + toJwt().
AccessToken(apiKey, apiSecret, username, room) ==
    [kind |-> "jwt", iss |-> apiKey, identity |-> username, ttl |-> Ttl,
     video |-> [room |-> room, roomJoin |-> TRUE, canPublish |-> TRUE,
                canSubscribe |-> TRUE]]

\* Whether request.json() or the destructuring of its result throws.
ParseThrows(body) == body.kind \in {"unparseable", "null"}

\* Whether at.toJwt() throws: never on strings; on other truthy values it is the
\* SDK's choice (rejects), which the repository does not fix.
ToJwtThrows(room, username, rejects) ==
    rejects /\ ~(IsString(room) /\ IsString(username))

MissingInput(room, username) == ~Truthy(room) \/ ~Truthy(username)

MissingCredentialsKeyOnly(apiKey, apiSecret) == ~Truthy(apiKey)

MissingCredentials(apiKey, apiSecret) == ~Truthy(apiKey) \/ ~Truthy(apiSecret)

\* The try block of the route: it throws, or returns a response.
Try(body, e, rejects) ==
    IF ParseThrows(body) THEN [threw |-> TRUE]
    ELSE LET room == Field(body, "room")
             username == Field(body, "username")
             apiKey == e.LIVEKIT_API_KEY
             apiSecret == e.LIVEKIT_API_SECRET
         IN IF MissingInput(room, username)
            THEN [threw |-> FALSE,
                  response |-> Json(400, [error |-> "Room and username are required"])]
            ELSE IF MissingCredentials(apiKey, apiSecret)
            THEN [threw |-> FALSE,
                  response |-> Json(500, [error |-> "LiveKit credentials not configured"])]
            ELSE IF ToJwtThrows(room, username, rejects)
            THEN [threw |-> TRUE]
            ELSE [threw |-> FALSE,
                  response |-> Json(200, [token |-> AccessToken(apiKey, apiSecret,
                                                                 username, room)])]

CatchResponseBadRequest == Json(400, [error |-> "Failed to generate token"])

\* The catch block of the route.
CatchResponse == Json(500, [error |-> "Failed to generate token"])

POST(body, e, rejects) ==
    LET try == Try(body, e, rejects)
    IN IF try.threw THEN CatchResponse ELSE try.response

(***************************************************************************)
(* The route as a server: one request is handled at a time.                *)
(***************************************************************************)
\* The fetch rejected (network failure): no response reaches the caller.
NetworkError == [status |-> -1]

RouteReceive(body) ==
    /\ request = NoRequest \/ response # NoResponse
    /\ request' = body
    /\ response' = NoResponse
    /\ caught' = FALSE
    /\ UNCHANGED <<env, homeVars, roomVars, now>>

RouteHandle(rejects) ==
    /\ request # NoRequest
    /\ response = NoResponse
    /\ response' = POST(request, env, rejects)
    /\ caught' = Try(request, env, rejects).threw
    /\ UNCHANGED <<env, request, homeVars, roomVars, now>>

(***************************************************************************)
(* Home  (src/unnamed/part_000, lines 294-356)                             *)
(***************************************************************************)
EmptyString == Str(<<>>)

RenderRoomAlways(t) == "room"

\* Home's render: the join screen while !token, else <LiveKitRoom>.
Render(t) == IF ~Truthy(t) THEN "join" ELSE "room"

\* JSON.stringify({room: roomName, username: `user-${Date.now()}`})
JoinBody(t) ==
    [kind |-> "object", room |-> Str(S_room), username |-> Str(S_user \o Digits(t))]

\* response.ok
Ok(resp) == resp.status >= 200 /\ resp.status <= 299

\* data.token of `await response.json()`
DataToken(resp) ==
    IF "token" \in DOMAIN resp.body THEN resp.body.token ELSE Undefined

\* The try block of joinRoom after the fetch settles: "threw" or the value it set.
TryJoin(resp) ==
    IF resp = NetworkError THEN [threw |-> TRUE]
    ELSE IF ~Ok(resp) THEN [threw |-> TRUE]
    ELSE [threw |-> FALSE, token |-> DataToken(resp)]

CatchSilent(outcome) == 0

\* The catch block: every exception is logged and alerted, none is rethrown.
CatchAlerts(outcome) == IF outcome.threw THEN 1 ELSE 0
CatchRethrows(outcome) == 0

StartCallNeverDisabled == FALSE

\* <Button onClick={joinRoom} disabled={isJoining}>
StartCallDisabled == isJoining

\* Click on "Start Call": joinRoom up to its first await.
JoinClick ==
    /\ screen = "join"
    /\ ~StartCallDisabled
    /\ Len(requested) < MaxJoins
    /\ isJoining' = TRUE
    /\ fetchState' = "pending"
    /\ request' = JoinBody(now)
    /\ response' = NoResponse
    /\ caught' = FALSE
    /\ requested' = Append(requested, JoinBody(now).room)
    /\ UNCHANGED <<env, token, alerts, thrown, screen, roomVars, now>>

\* The network drops the request or the response: fetch rejects.
FetchFail ==
    /\ fetchState = "pending"
    /\ response # NetworkError
    /\ response' = NetworkError
    /\ UNCHANGED <<env, caught, request, homeVars, roomVars, now>>

\* joinRoom resumes after the fetch settled: try / catch / finally.
JoinSettle ==
    /\ fetchState = "pending"
    /\ response # NoResponse
    /\ LET outcome == TryJoin(response)
       IN /\ token' = IF outcome.threw THEN token ELSE outcome.token
          /\ alerts' = alerts + CatchAlerts(outcome)
          /\ thrown' = thrown + CatchRethrows(outcome)
    /\ isJoining' = FALSE
    /\ fetchState' = "idle"
    /\ request' = NoRequest
    /\ response' = NoResponse
    /\ screen' = Render(token')
    /\ UNCHANGED <<env, caught, requested, roomVars, now>>

\* Date.now() advances.
Tick ==
    /\ now < MaxClock
    /\ now' = now + 1
    /\ UNCHANGED <<routeVars, homeVars, roomVars>>

(***************************************************************************)
(* VoiceChatRoom  (src/unnamed/part_000, lines 46-292)                     *)
(***************************************************************************)
Cap == 50

\* Array.prototype.slice(-n)
SliceLast(list, n) ==
    IF Len(list) <= n THEN list ELSE SubSeq(list, Len(list) - n + 1, Len(list))

PushUncapped(prev, message) == Append(prev, message)

PushFront(prev, message) == SliceLast(<<message>> \o prev, Cap)

\* Variant: the list the effect's closure captured (empty) instead of prev.
PushOntoCaptured(prev, message) == SliceLast(<<message>>, Cap)

\* The updater passed to setChatMessages: copy, push, keep the last 50.
PushMessage(prev, message) == SliceLast(Append(prev, message), Cap)

LabelEqualsAgent(identity) == IF identity = S_agent THEN "Agent" ELSE "You"

\* speakerIdentity.includes('agent') ? 'Agent' : 'You'
Label(identity) == IF Includes(identity, S_agent) THEN "Agent" ELSE "You"

\* The ChatMessage built from a stream read at time t (its id, a React key made
\* of the identity, Date.now() and Math.random(), is not modelled).
Message(identity, text, t) ==
    [participant |-> Label(identity), text |-> text, timestamp |-> t, isFinal |-> TRUE]

\* A listener registered by run r of the effect; fn names the function object by
\* the source line that creates it, so two arrows of equal text are two listeners.
Listener(event, r, fn) == [event |-> event, run |-> r, fn |-> fn]

\* The four room.on calls of the effect, lines 118-121 (room.on adds a listener).
Registered(r) ==
    {Listener("Connected", r, 118), Listener("Disconnected", r, 119),
     Listener("TrackPublished", r, 98), Listener("TrackUnpublished", r, 104)}

\* The four room.off calls of the cleanup, lines 131-134 (room.off removes the
\* listener that is the same function object): the first two pass arrow functions
\* created at lines 131 and 132.
Unregistered(r) ==
    {Listener("Connected", r, 131), Listener("Disconnected", r, 132),
     Listener("TrackPublished", r, 98), Listener("TrackUnpublished", r, 104)}

Listening(event) == \E l \in listeners : l.event = event

\* room.registerTextStreamHandler(topic, fn) inside try/catch, lines 111-115: the
\* SDK throws when the topic already has a handler, and the catch logs a warning.
Register(h, r) ==
    IF h = 0 THEN [handler |-> r, threw |-> FALSE] ELSE [handler |-> h, threw |-> TRUE]

\* room.unregisterTextStreamHandler(topic) inside try/catch, lines 125-129: when
\* the SDK throws (fails) the handler stays, and the catch logs a warning.
Unregister(h, fails) ==
    IF fails THEN [handler |-> h, threw |-> TRUE] ELSE [handler |-> 0, threw |-> FALSE]

\* Both catch blocks log with console.warn and rethrow nothing.
CatchWarn(threw) == 0

OnAllUnlessThrew(ls, r, threw) == IF threw THEN ls ELSE ls \cup Registered(r)

\* The room.on calls, lines 118-121, run after the try/catch whether it threw or not.
OnAll(ls, r, threw) == ls \cup Registered(r)

\* The room.off calls, lines 131-134, run after the try/catch whether it threw or not.
OffAll(ls, r, threw) == ls \ Unregistered(r)

\* The effect of VoiceChatRoom runs (mount, or re-run after a cleanup).
EffectRun ==
    /\ screen = "room"
    /\ effect = 0
    /\ runs < MaxRuns
    /\ runs' = runs + 1
    /\ effect' = runs + 1
    /\ LET registration == Register(handler, runs + 1)
       IN /\ handler' = registration.handler
          /\ listeners' = OnAll(listeners, runs + 1, registration.threw)
          /\ escaped' = escaped + CatchWarn(registration.threw)
    /\ UNCHANGED <<routeVars, homeVars, now, roomState, isConnected, chatMessages,
                   isAgentTyping, pending, streams, opened>>

\* The cleanup the effect returned runs (unmount, or before a re-run); fails says
\* whether the SDK's unregisterTextStreamHandler throws.
EffectCleanup(fails) ==
    /\ effect # 0
    /\ effect' = 0
    /\ LET unregistration == Unregister(handler, fails)
       IN /\ handler' = unregistration.handler
          /\ listeners' = OffAll(listeners, effect, unregistration.threw)
          /\ escaped' = escaped + CatchWarn(unregistration.threw)
    /\ UNCHANGED <<routeVars, homeVars, now, roomState, runs, isConnected,
                   chatMessages, isAgentTyping, pending, streams, opened>>

\* <LiveKitRoom connect={true}>: the platform reports the room connected.
RoomConnected ==
    /\ screen = "room"
    /\ roomState \in {"new", "closed"}
    /\ roomState' = "connected"
    /\ isConnected' = IF Listening("Connected") THEN TRUE ELSE isConnected
    /\ UNCHANGED <<routeVars, homeVars, now, handler, listeners, effect, runs,
                   chatMessages, isAgentTyping, pending, streams, opened, escaped>>

\* The platform reports the room disconnected: the end of a disconnect() or a
\* disconnection the platform decided (network loss, room closed).
RoomDisconnected ==
    /\ roomState \in {"connected", "closing"}
    /\ roomState' = "closed"
    /\ isConnected' = IF Listening("Disconnected") THEN FALSE ELSE isConnected
    /\ UNCHANGED <<routeVars, homeVars, now, handler, listeners, effect, runs,
                   chatMessages, isAgentTyping, pending, streams, opened, escaped>>

\* Click on "End Call" (disabled unless isConnected): disconnect().
Disconnect ==
    /\ screen = "room"
    /\ isConnected
    /\ roomState' = IF roomState = "connected" THEN "closing" ELSE roomState
    /\ chatMessages' = <<>>
    /\ isAgentTyping' = FALSE
    /\ UNCHANGED <<routeVars, homeVars, now, handler, listeners, effect, runs,
                   isConnected, pending, streams, opened, escaped>>

Participants == {"local", "remote"}
TrackKinds == {"audio", "video"}

TrackTypingAnyParticipant(participant, kind, value, typing) ==
    IF kind = "audio" THEN value ELSE typing

\* handleTrackPublished / handleTrackUnpublished.
TrackTyping(participant, kind, value, typing) ==
    IF participant # "local" /\ kind = "audio" THEN value ELSE typing

TrackPublished(participant, kind) ==
    /\ roomState = "connected"
    /\ isAgentTyping' = IF Listening("TrackPublished")
                        THEN TrackTyping(participant, kind, TRUE, isAgentTyping)
                        ELSE isAgentTyping
    /\ UNCHANGED <<routeVars, homeVars, now, roomState, handler, listeners, effect,
                   runs, isConnected, chatMessages, pending, streams, opened, escaped>>

TrackUnpublished(participant, kind) ==
    /\ roomState = "connected"
    /\ isAgentTyping' = IF Listening("TrackUnpublished")
                        THEN TrackTyping(participant, kind, FALSE, isAgentTyping)
                        ELSE isAgentTyping
    /\ UNCHANGED <<routeVars, homeVars, now, roomState, handler, listeners, effect,
                   runs, isConnected, chatMessages, pending, streams, opened, escaped>>

\* Identities of the senders of transcription streams: the agent, the local user
\* (the identity of the token), and a stream that carries no participant info.
AgentIdentity == Str(S_agent \o <<"-", "1">>)
Senders ==
    {AgentIdentity, Undefined} \cup (IF token.kind = "jwt" THEN {token.identity} ELSE {})

\* What a stream hands the handler: participantInfo, and whether reader.info has
\* attributes (without them line 70 throws before participantInfo is read, so one
\* sender stands for all).
StreamInfos ==
    {[sender |-> s, attributes |-> TRUE] : s \in Senders}
    \cup {[sender |-> AgentIdentity, attributes |-> FALSE]}

\* The platform opens a text stream on 'lk.transcription': the registered handler
\* is called and awaits reader.readAll().
StreamOpen(info) ==
    /\ roomState = "connected"
    /\ handler # 0
    /\ opened < MaxStreams
    /\ Cardinality(pending) < MaxPending
    /\ streams' = streams + 1
    /\ opened' = opened + 1
    /\ pending' = pending \cup {[id |-> streams + 1, sender |-> info.sender,
                                 attributes |-> info.attributes]}
    /\ UNCHANGED <<routeVars, homeVars, now, roomState, handler, listeners, effect,
                   runs, isConnected, chatMessages, isAgentTyping, escaped>>

HandlerThrowsWithoutSender(s) == s.sender = Undefined

\* Whether the handler throws after readAll() resolved: reader.info.attributes or
\* participantInfo is undefined.
HandlerThrows(s) == ~s.attributes \/ s.sender = Undefined

\* reader.readAll() resolves with the stream's text (its number, here).
ReadResolve(s) ==
    /\ s \in pending
    /\ pending' = pending \ {s}
    /\ IF HandlerThrows(s)
       THEN UNCHANGED <<chatMessages, isAgentTyping>>
       ELSE LET message == Message(s.sender.v, s.id, now)
            IN /\ chatMessages' = PushMessage(chatMessages, message)
               /\ isAgentTyping' = IF message.participant = "Agent"
                                   THEN FALSE ELSE isAgentTyping
    /\ UNCHANGED <<routeVars, homeVars, now, roomState, handler, listeners, effect,
                   runs, isConnected, streams, opened, escaped>>

\* reader.readAll() rejects: the catch logs the error.
ReadReject(s) ==
    /\ s \in pending
    /\ pending' = pending \ {s}
    /\ UNCHANGED <<routeVars, homeVars, now, roomState, handler, listeners, effect,
                   runs, isConnected, chatMessages, isAgentTyping, streams, opened, escaped>>

(***************************************************************************)
(* Specifications.                                                         *)
(***************************************************************************)
NoEvent == [op |-> "none"]

\* The page as loaded, with a server in some configuration.
Init ==
    /\ env \in Envs
    /\ caught = FALSE
    /\ request = NoRequest
    /\ response = NoResponse
    /\ token = EmptyString
    /\ isJoining = FALSE
    /\ fetchState = "idle"
    /\ alerts = 0
    /\ thrown = 0
    /\ screen = Render(EmptyString)
    /\ requested = <<>>
    /\ now = 0
    /\ roomState = "new"
    /\ handler = 0
    /\ listeners = {}
    /\ effect = 0
    /\ runs = 0
    /\ isConnected = FALSE
    /\ chatMessages = <<>>
    /\ isAgentTyping = FALSE
    /\ pending = {}
    /\ streams = 0
    /\ opened = 0
    /\ escaped = 0
    /\ delivered = NoEvent

\* The room and the component; the SDK's unregisterTextStreamHandler deletes the
\* handler and does not throw.
NextRoom ==
    \/ EffectRun /\ UNCHANGED delivered
    \/ EffectCleanup(FALSE) /\ UNCHANGED delivered
    \/ RoomConnected /\ UNCHANGED delivered
    \/ RoomDisconnected /\ UNCHANGED delivered
    \/ Disconnect /\ UNCHANGED delivered
    \/ \E p \in Participants, k \in TrackKinds : TrackPublished(p, k) /\ UNCHANGED delivered
    \/ \E p \in Participants, k \in TrackKinds : TrackUnpublished(p, k) /\ UNCHANGED delivered
    \/ \E info \in StreamInfos : StreamOpen(info) /\ UNCHANGED delivered
    \/ \E s \in pending : ReadResolve(s) /\ UNCHANGED delivered
    \/ \E s \in pending : ReadReject(s) /\ UNCHANGED delivered

Next ==
    \/ JoinClick /\ UNCHANGED delivered
    \/ \E rejects \in BOOLEAN : RouteHandle(rejects) /\ UNCHANGED delivered
    \/ FetchFail /\ UNCHANGED delivered
    \/ JoinSettle /\ UNCHANGED delivered
    \/ Tick /\ UNCHANGED delivered
    \/ NextRoom

Spec == Init /\ [][Next]_vars

\* The route alone, answering the requests of arbitrary clients.
NextRoute ==
    \/ \E body \in Bodies : RouteReceive(body) /\ UNCHANGED delivered
    \/ \E rejects \in BOOLEAN : RouteHandle(rejects) /\ UNCHANGED delivered

SpecRoute == Init /\ [][NextRoute]_vars

\* Home alone: clicks, the token request and its settling. The fetch settles (the
\* route answers or the network fails) and joinRoom then resumes.
NextJoin ==
    \/ JoinClick /\ UNCHANGED delivered
    \/ \E rejects \in BOOLEAN : RouteHandle(rejects) /\ UNCHANGED delivered
    \/ FetchFail /\ UNCHANGED delivered
    \/ JoinSettle /\ UNCHANGED delivered
    \/ Tick /\ UNCHANGED delivered

FetchSettles ==
    /\ (\E rejects \in BOOLEAN : RouteHandle(rejects)) \/ FetchFail
    /\ UNCHANGED delivered

JoinResumes == JoinSettle /\ UNCHANGED delivered

SpecJoin ==
    Init /\ [][NextJoin]_vars /\ WF_vars(FetchSettles) /\ WF_vars(JoinResumes)

\* A session under way: the user joined at time 0, the room is connected, the
\* effect ran once, and n transcription streams (numbered 1..n, from the user and
\* the agent in turn) were received and read.
Credential == Str(<<"k">>)
LocalIdentity == Str(S_user \o Digits(0))
Prefill(n) ==
    [i \in 1..n |->
        Message(IF i % 2 = 1 THEN LocalIdentity.v ELSE AgentIdentity.v, i, 0)]
PrefillLengths == {Cap - 1, Cap}

InitTranscript ==
    /\ env = [LIVEKIT_API_KEY |-> Credential, LIVEKIT_API_SECRET |-> Credential]
    /\ caught = FALSE
    /\ request = NoRequest
    /\ response = NoResponse
    /\ token = AccessToken(Credential, Credential, LocalIdentity, Str(S_room))
    /\ isJoining = FALSE
    /\ fetchState = "idle"
    /\ alerts = 0
    /\ thrown = 0
    /\ screen = Render(token)
    /\ requested = <<JoinBody(0).room>>
    /\ now = 0
    /\ roomState = "connected"
    /\ handler = 1
    /\ listeners = Registered(1)
    /\ effect = 1
    /\ runs = 1
    /\ isConnected = TRUE
    /\ \E n \in PrefillLengths :
        /\ chatMessages = Prefill(n)
        /\ streams = n
    /\ isAgentTyping = FALSE
    /\ pending = {}
    /\ opened = 0
    /\ escaped = 0
    /\ delivered = NoEvent

NextTranscript ==
    \/ Tick /\ UNCHANGED delivered
    \/ NextRoom

SpecTranscript == InitTranscript /\ [][NextTranscript]_vars

\* A session from the moment the token arrived (the user joined at time 0), with
\* every event delivered to the component recorded in `delivered`, and with an SDK
\* whose unregisterTextStreamHandler may throw.
InitSession ==
    /\ env = [LIVEKIT_API_KEY |-> Credential, LIVEKIT_API_SECRET |-> Credential]
    /\ caught = FALSE
    /\ request = NoRequest
    /\ response = NoResponse
    /\ token = AccessToken(Credential, Credential, LocalIdentity, Str(S_room))
    /\ isJoining = FALSE
    /\ fetchState = "idle"
    /\ alerts = 0
    /\ thrown = 0
    /\ screen = Render(token)
    /\ requested = <<JoinBody(0).room>>
    /\ now = 0
    /\ roomState = "new"
    /\ handler = 0
    /\ listeners = {}
    /\ effect = 0
    /\ runs = 0
    /\ isConnected = FALSE
    /\ chatMessages = <<>>
    /\ isAgentTyping = FALSE
    /\ pending = {}
    /\ streams = 0
    /\ opened = 0
    /\ escaped = 0
    /\ delivered = NoEvent

NextSession ==
    \/ EffectRun /\ delivered' = [op |-> "EffectRun"]
    \/ \E fails \in BOOLEAN :
          EffectCleanup(fails) /\ delivered' = [op |-> "EffectCleanup", fails |-> fails]
    \/ RoomConnected /\ delivered' = [op |-> "Connected"]
    \/ RoomDisconnected /\ delivered' = [op |-> "Disconnected"]
    \/ Disconnect /\ delivered' = [op |-> "disconnect"]
    \/ \E p \in Participants, k \in TrackKinds :
          TrackPublished(p, k)
          /\ delivered' = [op |-> "TrackPublished", participant |-> p, kind |-> k]
    \/ \E p \in Participants, k \in TrackKinds :
          TrackUnpublished(p, k)
          /\ delivered' = [op |-> "TrackUnpublished", participant |-> p, kind |-> k]
    \/ \E info \in StreamInfos :
          StreamOpen(info) /\ delivered' = [op |-> "StreamOpen", id |-> streams']
    \/ \E s \in pending :
          ReadResolve(s) /\ delivered' = [op |-> "ReadResolve", stream |-> s]
    \/ \E s \in pending :
          ReadReject(s) /\ delivered' = [op |-> "ReadReject", stream |-> s]

SpecSession == InitSession /\ [][NextSession]_vars

(***************************************************************************)
(* POST /api/token: claims C1-C4, under SpecRoute.                         *)
(***************************************************************************)
Handled == request # NoRequest /\ response # NoResponse /\ response # NetworkError
Falsy(x) == x \in {Undefined, Null, Num(0), Str(<<>>)}
IsErrorBody(resp) == "error" \in DOMAIN resp.body /\ "token" \notin DOMAIN resp.body

\* The body parsed as JSON (request.json() resolved) and room or username is
\* absent or falsy in it.
LacksInput(body) ==
    /\ body.kind \in {"null", "primitive", "object"}
    /\ \/ body.kind # "object"
       \/ Falsy(body.room)
       \/ Falsy(body.username)

\* C1: every request whose JSON body has room or username absent or falsy is
\* answered 400 with an error body and no token, whatever the server credentials.
C1_MissingInputIs400 ==
    (Handled /\ LacksInput(request))
        => (response.status = 400 /\ IsErrorBody(response))

\* C2: a request with room and username present is answered 500 with an error
\* body and no token when LIVEKIT_API_KEY or LIVEKIT_API_SECRET is unset or empty.
C2_MissingCredentialsIs500 ==
    (/\ Handled
     /\ request.kind = "object"
     /\ ~Falsy(request.room)
     /\ ~Falsy(request.username)
     /\ \/ env.LIVEKIT_API_KEY \in {Undefined, Str(<<>>)}
        \/ env.LIVEKIT_API_SECRET \in {Undefined, Str(<<>>)})
        => (response.status = 500 /\ IsErrorBody(response))

\* C2's case: the key is set, the secret is empty, the input is complete.
C2_Witness ==
    /\ Handled
    /\ request.kind = "object"
    /\ request.room = Str(S_room)
    /\ request.username = Str(S_other)
    /\ env.LIVEKIT_API_KEY = Str(<<"k">>)
    /\ env.LIVEKIT_API_SECRET = Str(<<>>)
    /\ response.status = 500

NonEmptyString(x) == x.kind = "str" /\ Len(x.v) > 0

\* C3: a request with non-empty room and username, with both credentials
\* configured, is answered 200 with {token}: identity the username, lifetime ten
\* minutes, join, publish and subscribe rights on exactly the supplied room.
C3_ValidInputMintsToken ==
    (/\ Handled
     /\ request.kind = "object"
     /\ NonEmptyString(request.room)
     /\ NonEmptyString(request.username)
     /\ NonEmptyString(env.LIVEKIT_API_KEY)
     /\ NonEmptyString(env.LIVEKIT_API_SECRET))
        => /\ response.status = 200
           /\ DOMAIN response.body = {"token"}
           /\ response.body.token.identity = request.username
           /\ response.body.token.ttl = "10m"
           /\ response.body.token.video =
                 [room |-> request.room, roomJoin |-> TRUE, canPublish |-> TRUE,
                  canSubscribe |-> TRUE]

\* C3's case: a token for a room and a user that differ from each other.
C3_Witness ==
    /\ Handled
    /\ request.kind = "object"
    /\ request.room = Str(S_other)
    /\ request.username = Str(S_room)
    /\ response.status = 200
    /\ response.body.token.video.room = Str(S_other)

\* C4: the response has status 200, 400 or 500, carries a token exactly when the
\* status is 200, and is 500 "Failed to generate token" whenever handling raised
\* an exception (as it does when the body cannot be parsed).
C4_OneResponse ==
    Handled =>
        /\ response.status \in {200, 400, 500}
        /\ ("token" \in DOMAIN response.body) <=> (response.status = 200)
        /\ (caught \/ request.kind = "unparseable")
              => response = [status |-> 500,
                             body |-> [error |-> "Failed to generate token"]]

\* C4's case: signing threw on complete input with the credentials configured.
C4_Witness ==
    /\ Handled
    /\ caught
    /\ request.kind = "object"
    /\ response.status = 500

(***************************************************************************)
(* VoiceChatRoom: claims C5-C7.                                            *)
(***************************************************************************)
\* C5: chatMessages never holds more than 50 entries, and every step that appends
\* leaves the last 50 entries of the previous list followed by the new message.
C5_TranscriptCapped ==
    /\ [](Len(chatMessages) <= 50)
    /\ [][(chatMessages' # chatMessages /\ chatMessages' # <<>>) =>
            LET new == chatMessages'[Len(chatMessages')]
                all == chatMessages \o <<new>>
            IN chatMessages' =
                 IF Len(all) <= 50 THEN all
                 ELSE [i \in 1..50 |-> all[Len(all) - 50 + i]]]_vars

\* C5's case: the list was full (streams 1..50) and stream 51 was appended, which
\* evicted stream 1.
C5_Witness ==
    /\ Len(chatMessages) = 50
    /\ chatMessages[1].text = 2
    /\ chatMessages[50].text = 51

\* C6: whenever the room becomes disconnected, by disconnect() or by the
\* platform, chatMessages is empty afterwards.
C6_DiscardedOnDisconnect ==
    [][(roomState # "closed" /\ roomState' = "closed") => chatMessages' = <<>>]_vars

\* C7: once the cleanup of the effect has run, no callback the effect registered
\* remains on the room, so the listeners do not accumulate over runs.
C7_CleanupRemovesAll ==
    (runs > 0 /\ effect = 0) => (handler = 0 /\ listeners = {})

(***************************************************************************)
(* Home: claims C8-C10.                                                    *)
(***************************************************************************)
\* C8: when the fetch of /api/token rejects or answers a non-OK status, joinRoom
\* shows the alert, leaves token empty (the join screen stays, the room is not
\* mounted) and lets no exception escape.
C8_FetchFailureAlerts ==
    [][(/\ fetchState = "pending"
        /\ fetchState' = "idle"
        /\ \/ response = NetworkError
           \/ response.status < 200
           \/ response.status > 299)
          => /\ alerts' = alerts + 1
             /\ token' = Str(<<>>)
             /\ screen' = "join"
             /\ effect' = 0
             /\ thrown' = 0]_vars

\* C8's case: one attempt was rejected by the network and one by the server.
C8_Witness ==
    /\ alerts = 2
    /\ fetchState = "idle"
    /\ ~isJoining
    /\ token = Str(<<>>)
    /\ screen = "join"

\* C9: the room is mounted only while token is non-empty, and token changes to a
\* non-empty value only when a join started by a click receives an OK response
\* carrying it.
C9_GatedByToken ==
    /\ []((screen = "room" \/ effect # 0 \/ roomState # "new")
            => (token.kind = "jwt" /\ token # Str(<<>>)))
    /\ [][(token' # token /\ token' # Str(<<>>)) =>
            /\ fetchState = "pending"
            /\ requested # <<>>
            /\ response.status \in 200..299
            /\ token' = response.body.token]_vars

\* C9's case: the token arrived and the room is mounted and connected.
C9_Witness ==
    /\ token.kind = "jwt"
    /\ screen = "room"
    /\ effect # 0
    /\ roomState = "connected"

\* C10: no two join attempts request a token for the same room name.
C10_RoomIsolation ==
    \A i, j \in DOMAIN requested :
        i # j => requested[i] # requested[j]

(***************************************************************************)
(* VoiceChatRoom: claims C11-C18.                                          *)
(***************************************************************************)
\* C11: when registerTextStreamHandler throws, the effect still registers its four
\* listeners and becomes live (its cleanup is returned); when
\* unregisterTextStreamHandler throws in the cleanup, the four room.off calls are
\* still made; no exception escapes either.
C11_RegistrationFailuresCaught ==
    /\ [][(effect = 0 /\ effect' # 0 /\ handler # 0) =>
            /\ effect' = runs'
            /\ \A e \in {"Connected", "Disconnected", "TrackPublished",
                         "TrackUnpublished"} :
                  \E l \in listeners' \ listeners : l.event = e /\ l.run = effect'
            /\ escaped' = 0]_vars
    /\ [][(effect # 0 /\ effect' = 0 /\ handler' # 0) =>
            /\ ~\E l \in listeners' :
                  /\ l.run = effect
                  /\ \/ l.event = "TrackPublished" /\ l.fn = 98
                     \/ l.event = "TrackUnpublished" /\ l.fn = 104
                     \/ l.event = "Connected" /\ l.fn = 131
                     \/ l.event = "Disconnected" /\ l.fn = 132
            /\ escaped' = 0]_vars

\* C11's case: unregistering failed in the cleanup of run 1, so registering threw
\* in run 2, which is live with its four listeners.
C11_Witness ==
    /\ effect = 2
    /\ handler = 1
    /\ Cardinality({l \in listeners : l.run = 2}) = 4
    /\ ~\E l \in listeners : l.run = 1 /\ l.event = "TrackPublished"

\* C12: between clears the transcript is append-only: a step that changes
\* chatMessages is either disconnect() emptying it, or an append of one entry at
\* the end that keeps every earlier entry, in order, except that the first entry
\* is evicted when the list was full.
Evicted(prev) == IF Len(prev) = Cap THEN 1 ELSE 0

C12_AppendOnly ==
    [][chatMessages' # chatMessages =>
         \/ /\ chatMessages' = <<>>
            /\ isConnected
            /\ pending' = pending
         \/ /\ pending' # pending
            /\ Len(chatMessages') = Len(chatMessages) + 1 - Evicted(chatMessages)
            /\ \A i \in 1..(Len(chatMessages') - 1) :
                  chatMessages'[i] = chatMessages[i + Evicted(chatMessages)]]_vars

\* C12's case: two appends to a full list (streams 1..50) evicted streams 1 and 2
\* from the front and left 3..50 in place, followed by 51 and 52.
C12_Witness ==
    /\ Len(chatMessages) = Cap
    /\ chatMessages[1].text = 3
    /\ chatMessages[Cap - 1].text = 51
    /\ chatMessages[Cap].text = 52

\* C13: while the component's effect is in place, isConnected (the badge, and the
\* enabling of Mute and End Call) is true exactly when the room is connected,
\* also when the room connected before the effect registered its listeners.
RoomIsConnected == roomState \in {"connected", "closing"}

C13_BadgeTracksRoom == effect # 0 => (isConnected <=> RoomIsConnected)

\* C14: isAgentTyping becomes true only when a remote participant publishes an
\* audio track; it is false after a remote participant's audio track is
\* unpublished, after a message labelled 'Agent' is appended and after
\* disconnect(); track events of the local participant, track events of other
\* kinds and messages labelled 'You' leave it as it was.
RemoteAudio(e) == e.participant = "remote" /\ e.kind = "audio"
IsTrackEvent(e) == e.op \in {"TrackPublished", "TrackUnpublished"}
Appended(label) ==
    /\ delivered'.op = "ReadResolve"
    /\ chatMessages' # chatMessages
    /\ chatMessages'[Len(chatMessages')].participant = label

C14_TypingTransitions ==
    [][/\ (~isAgentTyping /\ isAgentTyping') =>
              (delivered'.op = "TrackPublished" /\ RemoteAudio(delivered'))
       /\ (delivered'.op = "TrackUnpublished" /\ RemoteAudio(delivered')
              /\ Listening("TrackUnpublished")) => ~isAgentTyping'
       /\ Appended("Agent") => ~isAgentTyping'
       /\ delivered'.op = "disconnect" => ~isAgentTyping'
       /\ (IsTrackEvent(delivered') /\ ~RemoteAudio(delivered')) =>
              isAgentTyping' = isAgentTyping
       /\ Appended("You") => isAgentTyping' = isAgentTyping]_vars

\* C14's case: the indicator, set by a remote audio track, is still on after a
\* message labelled 'You' and after the local participant unpublished its audio.
C14_Witness ==
    /\ isAgentTyping
    /\ delivered = [op |-> "TrackUnpublished", participant |-> "local", kind |-> "audio"]
    /\ Len(chatMessages) = 1
    /\ chatMessages[1].participant = "You"

\* C15: every entry of chatMessages is labelled 'Agent' or 'You' and is final;
\* the entry appended for a stream is labelled 'Agent' exactly when the sender's
\* identity contains 'agent', so a stream of the local user (the identity of the
\* token, 'user-' followed by the time of the click) is labelled 'You'.
C15_Labelled ==
    /\ [](\A i \in 1..Len(chatMessages) :
             /\ chatMessages[i].participant \in {"Agent", "You"}
             /\ chatMessages[i].isFinal = TRUE)
    /\ [][\A s \in pending \ pending' :
             (chatMessages' # chatMessages /\ chatMessages' # <<>>) =>
                LET new == chatMessages'[Len(chatMessages')]
                IN /\ new.participant = "Agent" <=> Includes(s.sender.v, S_agent)
                   /\ s.sender = token.identity =>
                         /\ new.participant = "You"
                         /\ \E t \in 0..MaxClock : s.sender.v = S_user \o Digits(t)]_vars

\* C15's case: the user who joined at time 1 spoke and the agent answered.
C15_Witness ==
    /\ Len(chatMessages) = 2
    /\ chatMessages[1].participant = "You"
    /\ chatMessages[2].participant = "Agent"
    /\ token.identity = Str(S_user \o Digits(1))

\* C16: once disconnect() has ended the call (the room is closing), the completion
\* of a read that was pending at that moment appends nothing to chatMessages and
\* leaves isAgentTyping as it was.
CallEnded == roomState = "closing"

C16_NoLateAppend ==
    [][(CallEnded /\ pending' # pending) =>
          /\ chatMessages' = chatMessages
          /\ isAgentTyping' = isAgentTyping]_vars

\* C17: with several streams in flight, the completion of the read of a stream
\* (one that carries attributes and participant info) adds exactly one entry, that
\* stream's text, after all the entries already there, so entries are in the order
\* of completion; no stream's text is in the list twice.
C17_OnePerCompletion ==
    /\ [][(/\ delivered'.op = "ReadResolve"
           /\ delivered'.stream.attributes
           /\ delivered'.stream.sender # Undefined) =>
              /\ Len(chatMessages') = Len(chatMessages) + 1 - Evicted(chatMessages)
              /\ chatMessages'[Len(chatMessages')].text = delivered'.stream.id
              /\ \A i \in 1..(Len(chatMessages') - 1) :
                    chatMessages'[i] = chatMessages[i + Evicted(chatMessages)]]_vars
    /\ [](\A i, j \in 1..Len(chatMessages) :
             chatMessages[i].text = chatMessages[j].text => i = j)

\* C17's case: stream 1 was opened before stream 2, both were in flight, and the
\* read of stream 2 completed first.
C17_Witness ==
    /\ Len(chatMessages) = 2
    /\ chatMessages[1].text = 2
    /\ chatMessages[2].text = 1

\* C18: when handling a stream fails (readAll() rejects, or it resolves and the
\* stream has no attributes or no participant info), chatMessages and
\* isAgentTyping are left as they were, nothing escapes, the handler stays
\* registered and the other pending reads stay pending.
ReadFailed(e) ==
    \/ e.op = "ReadReject"
    \/ e.op = "ReadResolve" /\ (~e.stream.attributes \/ e.stream.sender = Undefined)

C18_ReadFailureIsolated ==
    [][ReadFailed(delivered') =>
          /\ chatMessages' = chatMessages
          /\ isAgentTyping' = isAgentTyping
          /\ escaped' = escaped
          /\ handler' = handler
          /\ pending' = pending \ {delivered'.stream}]_vars

\* C18's case: the read of an agent stream without attributes resolved while the
\* indicator was on; the indicator is still on, the handler is registered and
\* another stream is still being read.
C18_Witness ==
    /\ delivered.op = "ReadResolve"
    /\ ~delivered.stream.attributes
    /\ isAgentTyping
    /\ handler # 0
    /\ pending # {}

(***************************************************************************)
(* Home: claim C19.                                                        *)
(***************************************************************************)
\* C19: while a joinRoom call is in flight isJoining is true and Start Call is
\* disabled, so a token request is sent only when none is outstanding; when a call
\* settles, successfully or not, it leaves no request behind and sends no other;
\* and every call in flight eventually sets isJoining back to false.
C19_SingleFlightSettles ==
    /\ [](isJoining <=> fetchState = "pending")
    /\ [](isJoining => StartCallDisabled)
    /\ [][Len(requested') # Len(requested) =>
             /\ ~isJoining /\ fetchState = "idle"
             /\ isJoining'
             /\ Len(requested') = Len(requested) + 1]_vars
    /\ [][(isJoining /\ ~isJoining') =>
             /\ fetchState' = "idle"
             /\ request' = NoRequest
             /\ requested' = requested]_vars
    /\ (isJoining ~> ~isJoining)

\* C19's case: a call failed and settled, nothing is in flight and the one request
\* sent is the one of the click.
C19_Witness ==
    /\ alerts = 1
    /\ ~isJoining
    /\ fetchState = "idle"
    /\ request = NoRequest
    /\ Len(requested) = 1

====
